---- MODULE Spec2Model ----
(***************************************************************************)
(* Model of examples/test-http-navigate.py: the sequential walkthrough of  *)
(* the browser HTTP API performed by test_navigate_api, its helper         *)
(* print_response, and its two exception handlers.                         *)
(*                                                                         *)
(* The remote server is the environment: every request either returns a    *)
(* response (any status, any body) or raises requests' ConnectionError or  *)
(* raises some other Exception.  The local file system is environment too: *)
(* writing the screenshot file either succeeds or raises an OSError.       *)
(***************************************************************************)
EXTENDS Integers, Sequences, FiniteSets, TLC

VARIABLES
    SESSION_ID,   \* module constant, line 12: generated once at import
    pc,           \* position of test_navigate_api in its step sequence
    log,          \* every HTTP request issued so far, in order
    resp,         \* the outcome of the latest request (the transient step result)
    printed,      \* what the latest step printed about its response
    file,         \* the screenshot file in the working directory
    exc,          \* the exception raised inside the try block, if any
    httpErrLen,   \* history: Len(log) when an HTTP error status was first returned (0: never)
    shotBody      \* history: the body the screenshot endpoint returned, once it has

vars == <<SESSION_ID, pc, log, resp, printed, file, exc, httpErrLen, shotBody>>

---------------------------------------------------------------------------
(* Bounds of the model *)

\* int(time.time()) is drawn from 1..MaxTime
MaxTime == 2
\* the screenshot body is a sequence of at most MaxBytes bytes
MaxBytes == 2

\* html_content[:200]
HtmlPrefixLen == 200

Times == 1..MaxTime
Byte == {0, 1}
ByteSeqs == UNION {[1..n -> Byte] : n \in 0..MaxBytes}
Statuses == {200, 404, 500}

IsHttpError(status) == status >= 400

---------------------------------------------------------------------------
(* Values *)

BASE_URL == "http://localhost:3000"

\* f"test-navigate-{int(time.time())}"
SessionIdAt(t) == <<"test-navigate-", t>>

\* f"screenshot_{SESSION_ID}.png"
ScreenshotPath(sid) == <<"screenshot_", sid, ".png">>

Keys == {"title", "url", "html", "result", "success"}

\* a value of a field of a JSON object; "absent" marks a key the object lacks
Absent == [t |-> "absent", s |-> <<>>]
StrVal(s) == [t |-> "str", s |-> s]
NullVal == [t |-> "null", s |-> <<>>]
NumVal == [t |-> "num", s |-> <<>>]
TrueVal == [t |-> "bool", s |-> <<>>]
NA == StrVal(<<"N", "/", "A">>)
EmptyStr == StrVal(<<>>)

NoFields == [k \in Keys |-> Absent]
Obj(k, v) == [t |-> "obj", n |-> 0, fields |-> [NoFields EXCEPT ![k] = v]]

\* what response.json() can yield, and NotJson when it raises
NotJson == [t |-> "notjson", n |-> 0, fields |-> NoFields]
JNull == [t |-> "null", n |-> 0, fields |-> NoFields]
JZero == [t |-> "num", n |-> 0, fields |-> NoFields]
JList1 == [t |-> "list", n |-> 1, fields |-> NoFields]
EmptyObj == [t |-> "obj", n |-> 0, fields |-> NoFields]

Bodies ==
    { NotJson, JNull, JZero, JList1, EmptyObj,
      Obj("success", TrueVal),
      Obj("title", StrVal(<<"E", "x", "a", "m", "p", "l", "e">>)),
      Obj("title", StrVal(<<"G", "i", "t", "H", "u", "b">>)),
      Obj("title", NullVal),
      Obj("url", StrVal(<<"u">>)),
      Obj("html", StrVal(<<"<", "p", ">">>)),
      Obj("html", NullVal),
      Obj("result", StrVal(<<"r">>)) }

\* Python truthiness of a value returned by print_response
Truthy(d) ==
    CASE d.t = "obj" -> \E k \in Keys : d.fields[k] # Absent
      [] d.t \in {"null", "notjson"} -> FALSE
      [] OTHER -> d.n # 0

\* dict.get(key, default)
Get(d, key, default) ==
    IF d.fields[key] # Absent THEN d.fields[key] ELSE default

---------------------------------------------------------------------------
(* Requests *)

Request(method, ep, sid, arg) ==
    [method |-> method, ep |-> ep, base |-> BASE_URL, sid |-> sid, arg |-> arg]

StartRequest(sid) == Request("POST", "/api/browser/start", sid, "headless")
Navigate1Request(sid) == Request("POST", "/api/page/navigate", sid, "https://www.baidu.com")
Navigate2Request(sid) == Request("POST", "/api/page/navigate", sid, "https://github.com")
TitleRequest(sid) == Request("GET", "/api/page/title", sid, "")
UrlRequest(sid) == Request("GET", "/api/page/url", sid, "")
ScreenshotRequest(sid) == Request("POST", "/api/page/screenshot", sid, "png")
HtmlRequest(sid) == Request("GET", "/api/page/html", sid, "")
ExecuteRequest(sid) == Request("POST", "/api/page/execute", sid, "document.location.href")
StopRequest(sid) == Request("POST", "/api/browser/stop", sid, "")

\* the requests the handler of "except Exception" issues
CleanupNoStop(sid) == <<>>
CleanupFreshId(sid) == <<StopRequest(SessionIdAt(sid[2] + 1))>>
CleanupRequests(sid) == <<StopRequest(sid)>>

---------------------------------------------------------------------------
(* Outcomes of a request *)

NoResponse == [kind |-> "none", status |-> 0, json |-> NotJson, content |-> <<>>]
ConnectionError == [kind |-> "conn", status |-> 0, json |-> NotJson, content |-> <<>>]
OtherError == [kind |-> "other", status |-> 0, json |-> NotJson, content |-> <<>>]

\* a response read through response.json() / response.text
JsonOutcomes ==
    {[kind |-> "resp", status |-> s, json |-> b, content |-> <<>>] :
        s \in Statuses, b \in Bodies} \cup {ConnectionError, OtherError}

\* a response read through response.content
BinaryOutcomes ==
    {[kind |-> "resp", status |-> s, json |-> NotJson, content |-> c] :
        s \in Statuses, c \in ByteSeqs} \cup {ConnectionError, OtherError}

---------------------------------------------------------------------------
(* print_response and the field extraction that follows it *)

\* print_response: the parsed body, or None when response.json() raises
print_response(r) ==
    IF r.json = NotJson
    THEN [data |-> JNull, shown |-> "raw"]
    ELSE [data |-> r.json, shown |-> "json"]

Nothing == [shown |-> "none", what |-> "none", val |-> Absent, len |-> 0]

NoReport == [raised |-> FALSE, what |-> "none", val |-> Absent, len |-> 0]
Raised == [raised |-> TRUE, what |-> "none", val |-> Absent, len |-> 0]

\* if data: print(data.get(key, default)), the guard left out
ReportFieldNoGuard(d, key, default) ==
    IF d.t # "obj"
    THEN Raised
    ELSE [raised |-> FALSE, what |-> key, val |-> Get(d, key, default), len |-> 0]

\* if data: print(data.get(key, default))
ReportField(d, key, default) ==
    IF ~Truthy(d)
    THEN NoReport
    ELSE IF d.t # "obj"
         THEN Raised
         ELSE [raised |-> FALSE, what |-> key, val |-> Get(d, key, default), len |-> 0]

Min(a, b) == IF a < b THEN a ELSE b
Prefix(s, n) == SubSeq(s, 1, Min(Len(s), n))

\* if html_data: html_content = html_data.get('html', ''); len(...); [:200]
ReportHtml(d) ==
    IF ~Truthy(d)
    THEN NoReport
    ELSE IF d.t # "obj"
         THEN Raised
         ELSE LET v == Get(d, "html", EmptyStr)
              IN IF v.t # "str"
                 THEN Raised
                 ELSE [raised |-> FALSE, what |-> "html",
                       val |-> StrVal(Prefix(v.s, HtmlPrefixLen)), len |-> Len(v.s)]

---------------------------------------------------------------------------
(* Control flow *)

StepOrder ==
    <<"start", "nav1", "title1", "nav2", "url", "title2",
      "shot", "save", "html", "exec", "stop", "returned">>

IndexOf(step) == CHOOSE i \in 1..Len(StepOrder) : StepOrder[i] = step

\* the step sequence with the second navigation left out
AfterSkipNav2(step) ==
    IF step = "title1" THEN "url" ELSE StepOrder[IndexOf(step) + 1]

\* the statement that follows a step that raised nothing
After(step) == StepOrder[IndexOf(step) + 1]

\* every exception handled by "except Exception"
HandlerNoConnClause(kind) == "except_other"
\* a connection error starts the walkthrough again
HandlerRetry(kind) == IF kind = "conn" THEN "start" ELSE "except_other"

\* the except clause that catches an exception raised in the try block
Handler(kind) == IF kind = "conn" THEN "except_conn" ELSE "except_other"

\* the cleanup request outside any try
CleanupExitNoTry(kind) == IF kind = "resp" THEN "returned" ELSE "raised"

\* try: requests.post(stop) except: pass
CleanupExit(kind) == "returned"

NoExc == [kind |-> "none", step |-> "none", len |-> 0]

\* an exception of `kind` leaves the try block after n requests
Raise(kind, n) ==
    /\ pc' = Handler(kind)
    /\ exc' = [kind |-> kind, step |-> pc, len |-> n]

NoteStatus(o) ==
    httpErrLen' = IF httpErrLen = 0 /\ o.kind = "resp" /\ IsHttpError(o.status)
                  THEN Len(log) + 1
                  ELSE httpErrLen

---------------------------------------------------------------------------
(* The screenshot file *)

NoBody == [got |-> FALSE, content |-> <<>>]

NoFile == [exists |-> FALSE, name |-> <<>>, content |-> <<>>, closed |-> TRUE]

\* a write that loses the last byte
FileAfterWriteTruncated(path, content) ==
    [exists |-> TRUE, name |-> path, content |-> Prefix(content, Len(content) - 1),
     closed |-> TRUE]

\* with open(path, 'wb') as f: f.write(content)
FileAfterWrite(path, content) ==
    [exists |-> TRUE, name |-> path, content |-> content, closed |-> TRUE]

\* the file a write leaves behind when it raises after k bytes
FileAfterFailedWrite(path, content, k) ==
    [exists |-> TRUE, name |-> path, content |-> Prefix(content, k), closed |-> TRUE]

---------------------------------------------------------------------------
(* The steps of test_navigate_api *)

Init ==
    /\ SESSION_ID \in {SessionIdAt(t) : t \in Times}
    /\ pc = "start"
    /\ log = <<>>
    /\ resp = NoResponse
    /\ printed = Nothing
    /\ file = NoFile
    /\ exc = NoExc
    /\ httpErrLen = 0
    /\ shotBody = NoBody

\* a step that posts a request and passes the response to print_response
PlainStep(step, req) ==
    /\ pc = step
    /\ log' = Append(log, req)
    /\ \E o \in JsonOutcomes :
        /\ resp' = o
        /\ NoteStatus(o)
        /\ IF o.kind # "resp"
           THEN /\ Raise(o.kind, Len(log) + 1)
                /\ printed' = Nothing
           ELSE /\ pc' = After(step)
                /\ exc' = exc
                /\ printed' = [Nothing EXCEPT !.shown = print_response(o).shown]
    /\ UNCHANGED <<SESSION_ID, file, shotBody>>

\* a step that reads one field of the JSON body
ReadStep(step, req, key, default) ==
    /\ pc = step
    /\ log' = Append(log, req)
    /\ \E o \in JsonOutcomes :
        /\ resp' = o
        /\ NoteStatus(o)
        /\ IF o.kind # "resp"
           THEN /\ Raise(o.kind, Len(log) + 1)
                /\ printed' = Nothing
           ELSE LET p == print_response(o)
                    x == IF key = "html" THEN ReportHtml(p.data)
                                         ELSE ReportField(p.data, key, default)
                IN /\ printed' = [shown |-> p.shown, what |-> x.what,
                                  val |-> x.val, len |-> x.len]
                   /\ IF x.raised
                      THEN Raise("other", Len(log) + 1)
                      ELSE pc' = After(step) /\ exc' = exc
    /\ UNCHANGED <<SESSION_ID, file, shotBody>>

StartBrowser == PlainStep("start", StartRequest(SESSION_ID))

NavigateBaidu == PlainStep("nav1", Navigate1Request(SESSION_ID))

GetTitle1 == ReadStep("title1", TitleRequest(SESSION_ID), "title", NA)

NavigateGitHub == PlainStep("nav2", Navigate2Request(SESSION_ID))

GetUrl == ReadStep("url", UrlRequest(SESSION_ID), "url", NA)

GetTitle2 == ReadStep("title2", TitleRequest(SESSION_ID), "title", NA)

Screenshot ==
    /\ pc = "shot"
    /\ log' = Append(log, ScreenshotRequest(SESSION_ID))
    /\ \E o \in BinaryOutcomes :
        /\ resp' = o
        /\ NoteStatus(o)
        /\ IF o.kind # "resp"
           THEN /\ Raise(o.kind, Len(log) + 1)
                /\ printed' = Nothing
                /\ shotBody' = shotBody
           ELSE /\ pc' = After("shot")
                /\ exc' = exc
                /\ shotBody' = [got |-> TRUE, content |-> o.content]
                /\ printed' = [Nothing EXCEPT !.what = "size", !.len = Len(o.content)]
    /\ UNCHANGED <<SESSION_ID, file>>

SaveScreenshot ==
    /\ pc = "save"
    /\ \E io \in {"ok", "open_fails", "write_fails"} :
        CASE io = "ok" ->
               /\ file' = FileAfterWrite(ScreenshotPath(SESSION_ID), resp.content)
               /\ pc' = After("save")
               /\ exc' = exc
          [] io = "open_fails" ->
               /\ file' = file
               /\ Raise("other", Len(log))
          [] io = "write_fails" ->
               /\ \E k \in 0..Len(resp.content) :
                    /\ k = 0 \/ k < Len(resp.content)
                    /\ file' = FileAfterFailedWrite(ScreenshotPath(SESSION_ID),
                                                    resp.content, k)
               /\ Raise("other", Len(log))
    /\ UNCHANGED <<SESSION_ID, log, resp, printed, httpErrLen, shotBody>>

GetHtml == ReadStep("html", HtmlRequest(SESSION_ID), "html", EmptyStr)

ExecuteScript == ReadStep("exec", ExecuteRequest(SESSION_ID), "result", NA)

StopBrowser == PlainStep("stop", StopRequest(SESSION_ID))

\* except requests.exceptions.ConnectionError
ExceptConnectionError ==
    /\ pc = "except_conn"
    /\ pc' = "returned"
    /\ UNCHANGED <<SESSION_ID, log, resp, printed, file, exc, httpErrLen, shotBody>>

\* except Exception as e
ExceptException ==
    /\ pc = "except_other"
    /\ log' = log \o CleanupRequests(SESSION_ID)
    /\ \E o \in JsonOutcomes :
        /\ resp' = o
        /\ NoteStatus(o)
        /\ pc' = CleanupExit(o.kind)
    /\ printed' = Nothing
    /\ UNCHANGED <<SESSION_ID, file, exc, shotBody>>

Next ==
    \/ StartBrowser
    \/ NavigateBaidu
    \/ GetTitle1
    \/ NavigateGitHub
    \/ GetUrl
    \/ GetTitle2
    \/ Screenshot
    \/ SaveScreenshot
    \/ GetHtml
    \/ ExecuteScript
    \/ StopBrowser
    \/ ExceptConnectionError
    \/ ExceptException

Spec == Init /\ [][Next]_vars

---------------------------------------------------------------------------
(* Vocabulary of the properties *)

EP_START == "/api/browser/start"
EP_NAVIGATE == "/api/page/navigate"
EP_TITLE == "/api/page/title"
EP_URL == "/api/page/url"
EP_SCREENSHOT == "/api/page/screenshot"
EP_HTML == "/api/page/html"
EP_EXECUTE == "/api/page/execute"
EP_STOP == "/api/browser/stop"

ReadEps == {EP_TITLE, EP_URL, EP_SCREENSHOT, EP_HTML, EP_EXECUTE}
WalkthroughEps == {EP_START, EP_NAVIGATE} \cup ReadEps

Count(ep) == Cardinality({i \in DOMAIN log : log[i].ep = ep})
Issued(ep) == \E i \in DOMAIN log : log[i].ep = ep

\* the step that issues the n-th request of a run in which nothing was raised
RequestStep ==
    <<"start", "nav1", "title1", "nav2", "url", "title2", "shot", "html", "exec", "stop">>

\* the run ended by falling off the end of the try block
Completed == pc = "returned" /\ exc.kind = "none"

\* the latest response is the one of the cleanup request of "except Exception"
CleanupAnswered == exc.kind = "other" /\ Len(log) = exc.len + 1

\* the latest response went through print_response in a walkthrough step
PrintedResponse ==
    /\ resp.kind = "resp"
    /\ Len(log) > 0
    /\ log[Len(log)].ep # EP_SCREENSHOT
    /\ ~CleanupAnswered

\* the start request received a response
SessionAcquired == Len(log) >= 1 /\ exc.step # "start"

---------------------------------------------------------------------------
(* C1 *)

\* C1: in a run that completes with no exception raised, exactly one start,
\* two navigate and one stop request are issued, start first and stop last,
\* and a read/action request lies between the two navigate requests.
C1_HappyPathSequence ==
    Completed =>
        /\ Count(EP_START) = 1
        /\ Count(EP_NAVIGATE) = 2
        /\ Count(EP_STOP) = 1
        /\ log[1].ep = EP_START
        /\ log[Len(log)].ep = EP_STOP
        /\ \E i, j, k \in DOMAIN log :
              /\ i < j /\ j < k
              /\ log[i].ep = EP_NAVIGATE
              /\ log[k].ep = EP_NAVIGATE
              /\ log[j].ep \in ReadEps

C1_Witness == Completed /\ Len(log) = 10 /\ resp.status = 200

---------------------------------------------------------------------------
(* C2 *)

\* C2: once a step has raised a connection error, the function is in the
\* ConnectionError handler or has returned, it never raises, and no request
\* (so no stop request) follows the failing one.
C2_ConnectionErrorAborts ==
    exc.kind = "conn" =>
        /\ pc \in {"except_conn", "returned"}
        /\ Len(log) = exc.len
        /\ \A i \in DOMAIN log : i > exc.len => log[i].ep # EP_STOP

C2_Witness ==
    /\ pc = "returned"
    /\ exc.kind = "conn"
    /\ exc.step = "title2"
    /\ ~Issued(EP_STOP)

---------------------------------------------------------------------------
(* C3 *)

\* C3: after a non-connection exception at a step later than start, exactly
\* one stop request and nothing else is issued, and the function returns
\* without raising whatever the cleanup request's outcome.
C3_OneCleanupStop ==
    (exc.kind = "other" /\ exc.step # "start") =>
        /\ pc \in {"except_other", "returned"}
        /\ pc = "except_other" => Len(log) = exc.len
        /\ pc = "returned" =>
              /\ Len(log) = exc.len + 1
              /\ log[Len(log)].ep = EP_STOP

C3_Witness ==
    /\ pc = "returned"
    /\ exc.kind = "other"
    /\ exc.step = "save"
    /\ resp.kind = "conn"
    /\ Len(log) = exc.len + 1

---------------------------------------------------------------------------
(* C4 *)

\* C4: every request issued carries the session identifier generated at
\* start-up, the cleanup stop included, and the screenshot file name embeds it.
C4_ConstantSessionId ==
    /\ \E t \in Times : SESSION_ID = <<"test-navigate-", t>>
    /\ \A i \in DOMAIN log : log[i].sid = SESSION_ID
    /\ file.exists => file.name = <<"screenshot_", SESSION_ID, ".png">>

C4_Witness ==
    /\ pc = "returned"
    /\ Count(EP_STOP) = 2
    /\ Len(log) = 11
    /\ file.exists

---------------------------------------------------------------------------
(* C5 *)

\* C5: a response with an HTTP error status ends the walkthrough: the
\* function is in the failure handler or has returned, and the only request
\* after that response is one cleanup stop.
C5_HttpErrorIsTerminal ==
    (httpErrLen > 0 /\ httpErrLen < Len(RequestStep)) =>
        /\ pc \in {"except_other", "returned"}
        /\ \A i \in DOMAIN log :
              i > httpErrLen => (i = httpErrLen + 1 /\ log[i].ep = EP_STOP)

---------------------------------------------------------------------------
(* C6 *)

\* C6: once the screenshot step is complete (and so whenever the read-html
\* request has been issued) the file screenshot_<sessionId>.png exists, is
\* closed and holds exactly the bytes the screenshot endpoint returned,
\* whatever their number and whatever the status.
C6_ScreenshotFileComplete ==
    (pc = "html" \/ Issued(EP_HTML)) =>
        /\ shotBody.got
        /\ file.exists
        /\ file.closed
        /\ file.name = ScreenshotPath(SESSION_ID)
        /\ file.content = shotBody.content
        /\ Len(file.content) = Len(shotBody.content)

\* a two-byte body returned with an error status
C6_Witness ==
    /\ Issued(EP_HTML)
    /\ Len(shotBody.content) = 2
    /\ file.content = shotBody.content
    /\ httpErrLen = 7

\* N = 0: an empty body leaves an empty file
C6_WitnessEmpty ==
    /\ Issued(EP_HTML)
    /\ shotBody.content = <<>>
    /\ file.exists

---------------------------------------------------------------------------
(* C7 *)

\* C7: a non-JSON body passed to print_response is shown as raw text, yields
\* no data and no field report, raises nothing, and the walkthrough goes on
\* to the statement that follows the step.
C7_NonJsonNotAnError ==
    (PrintedResponse /\ resp.json = NotJson) =>
        /\ exc.kind = "none"
        /\ print_response(resp).data = JNull
        /\ printed.shown = "raw"
        /\ printed.what = "none"
        /\ Len(log) <= Len(RequestStep)
        /\ pc = After(RequestStep[Len(log)])

C7_Witness ==
    /\ pc = "nav2"
    /\ resp.kind = "resp"
    /\ resp.json = NotJson
    /\ IsHttpError(resp.status)

---------------------------------------------------------------------------
(* C8 *)

\* the latest response is a JSON body the read-title step has processed
TitleAnswered ==
    /\ PrintedResponse
    /\ log[Len(log)].ep = EP_TITLE
    /\ resp.json # NotJson

\* C8: after a read-title step whose JSON object carries a title, the title
\* reported is the value of that field; after one whose JSON object carries
\* no title, N/A is reported and the walkthrough continues.
C8_TitleReported ==
    (TitleAnswered /\ resp.json.t = "obj") =>
        IF resp.json.fields["title"] # Absent
        THEN /\ printed.what = "title"
             /\ printed.val = resp.json.fields["title"]
        ELSE /\ printed.what = "title"
             /\ printed.val = NA
             /\ exc.kind = "none"

---------------------------------------------------------------------------
(* C9 *)

\* the request of the step that raised
FailedRequest == log[exc.len]

AtMostOncePerStep ==
    /\ Count(EP_START) <= 1
    /\ Count(EP_NAVIGATE) <= 2
    /\ Count(EP_TITLE) <= 2
    /\ Count(EP_URL) <= 1
    /\ Count(EP_SCREENSHOT) <= 1
    /\ Count(EP_HTML) <= 1
    /\ Count(EP_EXECUTE) <= 1
    /\ Count(EP_STOP) <= 2

\* C9 as stated: after an exception the failed request is never issued again
\* and no walkthrough request follows; each request is issued at most as
\* often as the walkthrough names it, stop at most twice.
C9_NoRetryOriginal ==
    /\ AtMostOncePerStep
    /\ exc.kind # "none" =>
          \A i \in DOMAIN log :
              i > exc.len =>
                  /\ log[i].ep \notin WalkthroughEps
                  /\ log[i] # FailedRequest

\* C9 amended: as stated, except that a stop request that failed with a
\* non-connection error is issued once more, as the cleanup stop.
C9_NoRetry ==
    /\ AtMostOncePerStep
    /\ exc.kind # "none" =>
          /\ pc \in {"except_conn", "except_other", "returned"}
          /\ \A i \in DOMAIN log :
                i > exc.len =>
                    /\ log[i].ep \notin WalkthroughEps
                    /\ log[i] = FailedRequest =>
                          /\ exc.step = "stop"
                          /\ exc.kind = "other"
                          /\ i = exc.len + 1

C9_Witness ==
    /\ pc = "returned"
    /\ exc.kind = "other"
    /\ exc.step = "stop"
    /\ log[Len(log)] = FailedRequest
    /\ Len(log) = exc.len + 1

---------------------------------------------------------------------------
(* C10 *)

\* C10 as stated: a run that acquired a session has attempted a stop request
\* by the time the function returns, on every exit path.
C10_ReleaseOnEveryPathOriginal ==
    (pc = "returned" /\ SessionAcquired) => Issued(EP_STOP)

\* C10 amended: a run that acquired a session has attempted a stop request by
\* the time the function returns when it completed or failed with a
\* non-connection error; after a connection error at a step before stop, no
\* stop request is attempted.
C10_ReleaseUnlessConnectionError ==
    (pc = "returned" /\ SessionAcquired) =>
        /\ exc.kind # "conn" => Issued(EP_STOP)
        /\ (exc.kind = "conn" /\ exc.step # "stop") => ~Issued(EP_STOP)

C10_Witness ==
    /\ pc = "returned"
    /\ SessionAcquired
    /\ exc.kind = "other"
    /\ exc.step = "exec"
    /\ Issued(EP_STOP)

====
